---- MODULE Spec2Model ----
(***************************************************************************)
(* Model of TrainingInterfaces/Text_to_Spectrogram/FastSpeech2/            *)
(* fastspeech2_train_loop.py: the batch collator collate_and_pad and the   *)
(* control loop train_loop, run as a sequence of processes on one          *)
(* save_directory (a process may be killed at any point and a new one      *)
(* started on the same directory).                                         *)
(*                                                                         *)
(* Learning rates are integers: a configured lr is a multiple of 100, so   *)
(* that lr * 0.01 is exact.  Model parameters are abstracted to the number *)
(* of optimizer updates that produced them.                                *)
(***************************************************************************)
EXTENDS Integers, Sequences, FiniteSets, TLC

\* ------------------------------------------------------------------ bounds
\* largest step_counter a run is followed to (a batch starts only below it)
MaxStep == 6
\* processes started on the save_directory in one behaviour
MaxRuns == 2
\* process kills in one behaviour
MaxCrashes == 1
\* batches with non-finite gradients in one behaviour
MaxOverflows == 1
\* datapoints in a batch handed to collate_and_pad
MaxBatch == 2
\* processes in a row when none is killed
RestoreRuns == 2
\* fresh runs in a row on one save_directory
FreshRuns == 1
\* the warmup_steps every run is configured with
WarmupSteps == 2

\* ------------------------------------------------------- program constants
\* delete_old_checkpoints(save_directory, keep=5)
Keep == 5
\* GradScaler() defaults: init_scale 2^16 (the exponent is modelled),
\* growth_interval 2000
InitScaleExp == 16
GrowthInterval == 2000

None == -1

Min(a, b) == IF a < b THEN a ELSE b

\* ----------------------------------------------------------- configuration
\* train_loop's arguments.  path_to_checkpoint is filled in by Start from the
\* files present in save_directory.
BaseConfigs ==
    [N : {1, 3}, batch_size : {2}, steps : {0, 5}, epochs_per_save : {1, 2},
     lr : {100}, warmup_steps : {WarmupSteps},
     fine_tune : BOOLEAN, resume : BOOLEAN]

\* the arguments of runs that load what an earlier run saved
RestoreConfigs ==
    [N : {1, 3}, batch_size : {2}, steps : {1}, epochs_per_save : {1, 2},
     lr : {100, 200}, warmup_steps : {WarmupSteps},
     fine_tune : BOOLEAN, resume : BOOLEAN]

\* runs over a dataset that fills at least one batch
LiveConfigs ==
    [N : {2, 3}, batch_size : {2}, steps : {1}, epochs_per_save : {1, 2},
     lr : {100}, warmup_steps : {WarmupSteps},
     fine_tune : BOOLEAN, resume : BOOLEAN]

\* a fresh run (no checkpoint, no resume) over wider dataset and batch sizes
FreshConfigs ==
    [N : 1..5, batch_size : {1, 2, 3}, steps : {0, 3}, epochs_per_save : {1, 2, 3},
     lr : {100}, warmup_steps : {WarmupSteps},
     fine_tune : {FALSE}, resume : {FALSE}]

\* ------------------------------------------------------------ torch objects
\* torch.optim.Adam(net.parameters(), lr=lr): the param group's initial and
\* current learning rate and the number of updates applied
Adam(l) == [initial_lr |-> l, lr |-> l, steps |-> 0]

\* GradScaler()
GradScaler == [scale |-> InitScaleExp, growth_tracker |-> 0]

\* scaler.update(): back off after a step with non-finite gradients, grow
\* after growth_interval steps without
ScalerUpdate(s, inf) ==
    IF inf THEN [scale |-> s.scale - 1, growth_tracker |-> 0]
    ELSE IF s.growth_tracker + 1 = GrowthInterval
         THEN [scale |-> s.scale + 1, growth_tracker |-> 0]
         ELSE [scale |-> s.scale, growth_tracker |-> s.growth_tracker + 1]

\* WarmupScheduler(optimizer, warmup_steps): state is current_step
WarmupScheduler == [current_step |-> 0]

\* the schedule's learning rate, in units of 1/warmup_steps:
\* base_lr * min(1, current_step / warmup_steps)
Apply(base_lr, current_step, warmup_steps) == base_lr * Min(current_step, warmup_steps)

\* scheduler.step()
Advance(s) == [current_step |-> s.current_step + 1]

\* ---------------------------------------------------------- save_directory
\* the checkpoint files of a directory are a function from the step number
\* embedded in the file name to the file's content
EmptyDir == [k \in {} |-> 0]

PartialFile == [complete |-> FALSE]

\* get_most_recent_checkpoint(checkpoint_dir): the file with the largest
\* embedded step number, None if there is none
get_most_recent_checkpoint(dir) ==
    IF DOMAIN dir = {} THEN None
    ELSE CHOOSE k \in DOMAIN dir : \A j \in DOMAIN dir : j <= k

\* delete_old_checkpoints(checkpoint_dir, keep): keep the files with the
\* `keep` largest embedded step numbers
delete_old_checkpoints(dir, keep) ==
    LET kept == {k \in DOMAIN dir : Cardinality({j \in DOMAIN dir : j > k}) < keep}
    IN  [k \in kept |-> dir[k]]

\* a loader that keeps the incomplete last batch
NumBatchesKeepLast(n, b) == (n + b - 1) \div b

\* DataLoader(batch_size, dataset, drop_last=True): batches per epoch
NumBatches(n, b) == n \div b

\* -------------------------------------------------------- collate_and_pad
\* a datapoint is a tuple of 7 or 8 tensors: text, text_len, speech,
\* speech_len, durations, energy, pitch and, with 8, speaker_emb.  A tensor
\* is the sequence of its entries along its first axis.
Datapoint(text, speech, durations, energy, pitch) ==
    <<text, <<Len(text)>>, speech, <<Len(speech)>>, durations, energy, pitch>>

Datapoints7 ==
    {Datapoint(t, s, d, e, p) :
        t \in {<<1>>, <<1, 2>>}, s \in {<<3>>, <<3, 4>>}, d \in {<<1>>, <<1, 1>>},
        e \in {<<5>>, <<5, 6>>}, p \in {<<7>>, <<7, 8>>}}

Datapoints8 == {Append(r, <<9>>) : r \in Datapoints7}

Datapoints == Datapoints7 \cup Datapoints8

\* the lists of 1..MaxBatch datapoints
Batches == UNION {[1..n -> Datapoints] : n \in 1..MaxBatch}

Max(S) == CHOOSE m \in S : \A x \in S : x <= m

\* a pad_sequence that fills up with 1
pad_sequence_ones(seqs) ==
    LET m == Max({Len(seqs[i]) : i \in 1..Len(seqs)})
    IN  [i \in 1..Len(seqs) |->
            [j \in 1..m |-> IF j <= Len(seqs[i]) THEN seqs[i][j] ELSE 1]]

\* torch's pad_sequence(sequences, batch_first=True): every row as long as the
\* longest, filled up with 0
pad_sequence(seqs) ==
    LET m == Max({Len(seqs[i]) : i \in 1..Len(seqs)})
    IN  [i \in 1..Len(seqs) |->
            [j \in 1..m |-> IF j <= Len(seqs[i]) THEN seqs[i][j] ELSE 0]]

\* torch.stack(tensors)
stack(tensors) == tensors

\* .squeeze(1) of a stack of one-entry tensors
squeeze1(t) == [i \in 1..Len(t) |-> t[i][1]]

\* [datapoint[f] for datapoint in batch], f counted from 0 as in the code
Column(b, f) == [i \in 1..Len(b) |-> b[i][f + 1]]

NotCalled == [ok |-> FALSE, error |-> "not called", fields |-> <<>>]
Raised(e) == [ok |-> FALSE, error |-> e, fields |-> <<>>]
Returned(t) == [ok |-> TRUE, error |-> "none", fields |-> t]

\* line 54: the branch is chosen by the first datapoint
TakesEight(b) == Len(b[1]) = 8

\* lines 53-72.  Indexing a datapoint beyond its fields raises IndexError.
collate_and_pad(b) ==
    IF TakesEight(b)
    THEN IF \E i \in 1..Len(b) : Len(b[i]) < 8
         THEN Raised("IndexError")
         ELSE Returned(<<pad_sequence(Column(b, 0)),
                         squeeze1(stack(Column(b, 1))),
                         pad_sequence(Column(b, 2)),
                         squeeze1(stack(Column(b, 3))),
                         pad_sequence(Column(b, 4)),
                         pad_sequence(Column(b, 5)),
                         pad_sequence(Column(b, 6)),
                         stack(Column(b, 7))>>)
    ELSE IF \E i \in 1..Len(b) : Len(b[i]) < 7
         THEN Raised("IndexError")
         ELSE Returned(<<pad_sequence(Column(b, 0)),
                         squeeze1(stack(Column(b, 1))),
                         pad_sequence(Column(b, 2)),
                         squeeze1(stack(Column(b, 3))),
                         pad_sequence(Column(b, 4)),
                         pad_sequence(Column(b, 5)),
                         pad_sequence(Column(b, 6))>>)

\* batch[i] of lines 148-154, i counted from 0
At(b, i) == b[i + 1]

NoCall == [ok |-> FALSE, error |-> "not called", use_speaker_embedding |-> FALSE,
           args |-> <<>>]

\* a call that hands energy and pitch over in the batch's order
forward_call_in_batch_order(b, use_speaker_embedding) ==
    [ok |-> TRUE, error |-> "none", use_speaker_embedding |-> use_speaker_embedding,
     args |-> IF use_speaker_embedding /\ Len(b) >= 8
              THEN <<At(b, 0), At(b, 1), At(b, 2), At(b, 3), At(b, 4), At(b, 5),
                     At(b, 6), At(b, 7)>>
              ELSE <<At(b, 0), At(b, 1), At(b, 2), At(b, 3), At(b, 4), At(b, 5),
                     At(b, 6)>>]

\* lines 147-154: the arguments net is called with.  batch[7] of a 7-field
\* batch raises IndexError.
forward_call(b, use_speaker_embedding) ==
    IF ~use_speaker_embedding
    THEN [ok |-> TRUE, error |-> "none", use_speaker_embedding |-> FALSE,
          args |-> <<At(b, 0), At(b, 1), At(b, 2), At(b, 3), At(b, 4), At(b, 6),
                     At(b, 5)>>]
    ELSE IF Len(b) < 8
    THEN [ok |-> FALSE, error |-> "IndexError", use_speaker_embedding |-> TRUE,
          args |-> <<>>]
    ELSE [ok |-> TRUE, error |-> "none", use_speaker_embedding |-> TRUE,
          args |-> <<At(b, 0), At(b, 1), At(b, 2), At(b, 3), At(b, 4), At(b, 6),
                     At(b, 5), At(b, 7)>>]

VARIABLES
    disk,                \* save_directory: checkpoint_<k>.pt files
    plots,               \* save_directory/spec: the <k>.png files
    pc,                  \* where the process is ("idle": no process)
    cfg,                 \* the arguments train_loop was called with
    path_to_checkpoint,
    check_dict,          \* what torch.load returned
    step_counter, epoch, lr,
    net,                 \* model parameters
    mode,                \* net.train() / net.eval()
    optimizer, scaler, scheduler,
    batch_i,             \* batches the loader has yielded this epoch
    train_losses_this_epoch,   \* length of the list
    grad,                \* gradients: "none", "finite", "inf"
    found_inf,           \* what scaler.unscale_ recorded
    failure,             \* the exception that ended the process
    block_log,           \* operations of the current end-of-epoch block
    plotted,             \* artifacts written by this process, in order
    saves,               \* step_counter of each completed save of this process
    not_found,           \* get_most_recent_checkpoint returned None
    after_crash,         \* the process before this one was killed
    last_save,           \* live state at the last completed save
    crash_at,            \* step_counter and save interval of the killed process
    runs, crashes, overflows,
    batch,               \* the records handed to collate_and_pad
    collated,            \* what collate_and_pad returned
    net_call             \* the arguments of the training call net(...)

vars == <<disk, plots, pc, cfg, path_to_checkpoint, check_dict, step_counter, epoch,
          lr, net, mode, optimizer, scaler, scheduler, batch_i,
          train_losses_this_epoch, grad, found_inf, failure, block_log, plotted,
          saves, not_found, after_crash, last_save, crash_at,
          runs, crashes, overflows, batch, collated, net_call>>

proc == <<cfg, path_to_checkpoint, check_dict, step_counter, epoch, lr, net, mode,
          optimizer, scaler, scheduler, batch_i, train_losses_this_epoch, grad,
          found_inf>>
files == <<disk, plots>>
ghost == <<block_log, plotted, saves, not_found, last_save>>
counts == <<runs, crashes, overflows>>
data == <<batch, collated, net_call>>

NoConfig == [N |-> 0, batch_size |-> 1, steps |-> 0, epochs_per_save |-> 1, lr |-> 0,
             warmup_steps |-> WarmupSteps, fine_tune |-> FALSE, resume |-> FALSE,
             path_to_checkpoint |-> None]
NoDict == [complete |-> FALSE]
NoSave == [tag |-> None]
NoCrash == [step_counter |-> 0, interval |-> 0]

Running == pc \notin {"idle", "done", "failed"}

\* the state of a process that is not there
NoProcess ==
    /\ cfg = NoConfig /\ path_to_checkpoint = None /\ check_dict = NoDict
    /\ step_counter = 0 /\ epoch = 0 /\ lr = 0 /\ net = 0 /\ mode = "train"
    /\ optimizer = Adam(0) /\ scaler = GradScaler /\ scheduler = WarmupScheduler
    /\ batch_i = 0 /\ train_losses_this_epoch = 0 /\ grad = "none"
    /\ found_inf = FALSE

Init ==
    /\ disk = EmptyDir /\ plots = {}
    /\ pc = "idle" /\ failure = "none"
    /\ NoProcess
    /\ block_log = <<>> /\ plotted = <<>> /\ saves = <<>>
    /\ not_found = FALSE /\ after_crash = FALSE
    /\ last_save = NoSave /\ crash_at = NoCrash
    /\ runs = 0 /\ crashes = 0 /\ overflows = 0
    /\ batch = <<>> /\ collated = NotCalled /\ net_call = NoCall

\* ------------------------------------------------------------- train_loop
\* a fine-tune run that keeps the configured learning rate
FineTuneLrKept(l) == l

\* line 125: lr * 0.01
FineTuneLr(l) == l \div 100

\* lines 106-128: a process calls train_loop(net, ..., **c) with a freshly
\* initialised net
StartRun(c, limit) ==
    /\ ~Running
    /\ runs < limit
    /\ runs' = runs + 1
    /\ cfg' = c
    /\ path_to_checkpoint' = c.path_to_checkpoint
    /\ check_dict' = NoDict
    /\ scaler' = GradScaler
    /\ step_counter' = 0
    /\ net' = 0
    /\ mode' = "train"
    /\ lr' = IF c.fine_tune THEN FineTuneLr(c.lr) ELSE c.lr
    /\ optimizer' = Adam(lr')
    /\ scheduler' = WarmupScheduler
    /\ epoch' = 0
    /\ batch_i' = 0 /\ train_losses_this_epoch' = 0
    /\ grad' = "none" /\ found_inf' = FALSE
    /\ failure' = "none"
    /\ block_log' = <<>> /\ plotted' = <<>> /\ saves' = <<>> /\ not_found' = FALSE
    /\ after_crash' = (pc = "idle" /\ runs > 0)
    /\ pc' = "resume"
    /\ UNCHANGED <<data, files, last_save, crash_at, crashes, overflows>>

WithPath(b, p) ==
    [N |-> b.N, batch_size |-> b.batch_size, steps |-> b.steps,
     epochs_per_save |-> b.epochs_per_save, lr |-> b.lr,
     warmup_steps |-> b.warmup_steps, fine_tune |-> b.fine_tune,
     resume |-> b.resume, path_to_checkpoint |-> p]

\* the caller passes no checkpoint path or the path of a file of save_directory
Paths == {None} \cup DOMAIN disk

Start == \E b \in BaseConfigs, p \in Paths : StartRun(WithPath(b, p), MaxRuns)

\* a run with neither path_to_checkpoint nor resume
StartFresh == \E b \in FreshConfigs : StartRun(WithPath(b, None), FreshRuns)

StartRestore ==
    \E b \in RestoreConfigs, p \in Paths : StartRun(WithPath(b, p), RestoreRuns)

\* lines 129-130
Resume ==
    /\ pc = "resume"
    /\ IF cfg.resume
       THEN /\ path_to_checkpoint' = get_most_recent_checkpoint(disk)
            /\ not_found' = (get_most_recent_checkpoint(disk) = None)
       ELSE UNCHANGED <<path_to_checkpoint, not_found>>
    /\ pc' = "load"
    /\ UNCHANGED <<data, files, cfg, check_dict, step_counter, epoch, lr, net, mode,
                   optimizer, scaler, scheduler, batch_i, train_losses_this_epoch,
                   grad, found_inf, failure, block_log, plotted, saves,
                   after_crash, last_save, crash_at, counts>>

\* lines 131-139: torch.load raises on a file that was not written to its end
Load ==
    /\ pc = "load"
    /\ IF path_to_checkpoint = None
       THEN /\ pc' = "epoch"
            /\ UNCHANGED <<check_dict, net, optimizer, scaler, scheduler,
                           step_counter, failure>>
       ELSE IF ~disk[path_to_checkpoint].complete
       THEN /\ pc' = "failed"
            /\ failure' = "CorruptCheckpointError"
            /\ UNCHANGED <<check_dict, net, optimizer, scaler, scheduler, step_counter>>
       ELSE /\ check_dict' = disk[path_to_checkpoint]
            /\ net' = check_dict'.model
            /\ IF ~cfg.fine_tune
               THEN /\ optimizer' = check_dict'.optimizer
                    /\ scaler' = check_dict'.scaler
                    /\ scheduler' = check_dict'.scheduler
                    /\ step_counter' = check_dict'.step_counter
               ELSE UNCHANGED <<optimizer, scaler, scheduler, step_counter>>
            /\ pc' = "epoch"
            /\ UNCHANGED failure
    /\ UNCHANGED <<data, files, cfg, path_to_checkpoint, epoch, lr, mode, batch_i,
                   train_losses_this_epoch, grad, found_inf, ghost,
                   after_crash, crash_at, counts>>

\* lines 141-144
EpochBegin ==
    /\ pc = "epoch"
    /\ epoch' = epoch + 1
    /\ grad' = "none"
    /\ train_losses_this_epoch' = 0
    /\ batch_i' = 0
    /\ block_log' = <<>>
    /\ pc' = "fetch"
    /\ UNCHANGED <<data, files, cfg, path_to_checkpoint, check_dict, step_counter, lr, net,
                   mode, optimizer, scaler, scheduler, found_inf, failure, plotted,
                   saves, not_found, after_crash, last_save, crash_at, counts>>

\* line 145: the loader yields the next full batch, or the epoch's data is
\* exhausted
Fetch ==
    /\ pc = "fetch"
    /\ IF batch_i < NumBatches(cfg.N, cfg.batch_size)
       THEN /\ step_counter < MaxStep
            /\ batch_i' = batch_i + 1
            /\ pc' = "forward"
       ELSE /\ pc' = "eval"
            /\ UNCHANGED batch_i
    /\ UNCHANGED <<data, files, cfg, path_to_checkpoint, check_dict, step_counter, epoch, lr,
                   net, mode, optimizer, scaler, scheduler, train_losses_this_epoch,
                   grad, found_inf, failure, ghost, after_crash, crash_at, counts>>

\* lines 146-155
Forward ==
    /\ pc = "forward"
    /\ train_losses_this_epoch' = train_losses_this_epoch + 1
    /\ pc' = "backward"
    /\ UNCHANGED <<data, files, cfg, path_to_checkpoint, check_dict, step_counter, epoch, lr,
                   net, mode, optimizer, scaler, scheduler, batch_i, grad, found_inf,
                   failure, ghost, after_crash, crash_at, counts>>

\* lines 156-158: the gradients of the scaled loss are finite or not
Backward ==
    /\ pc = "backward"
    /\ \E g \in {"finite", "inf"} :
        /\ g = "inf" => overflows < MaxOverflows
        /\ grad' = g
        /\ overflows' = IF g = "inf" THEN overflows + 1 ELSE overflows
    /\ pc' = "count"
    /\ UNCHANGED <<data, files, cfg, path_to_checkpoint, check_dict, step_counter, epoch, lr,
                   net, mode, optimizer, scaler, scheduler, batch_i,
                   train_losses_this_epoch, found_inf, failure, ghost, after_crash,
                   crash_at, runs, crashes>>

\* a counter that leaves out the batches whose gradients were not finite
CountUnlessInf ==
    /\ pc = "count"
    /\ step_counter' = IF grad = "inf" THEN step_counter ELSE step_counter + 1
    /\ pc' = "unscale"
    /\ UNCHANGED <<data, files, cfg, path_to_checkpoint, check_dict, epoch, lr, net, mode,
                   optimizer, scaler, scheduler, batch_i, train_losses_this_epoch,
                   grad, found_inf, failure, ghost, after_crash, crash_at, counts>>

\* line 159
Count ==
    /\ pc = "count"
    /\ step_counter' = step_counter + 1
    /\ pc' = "unscale"
    /\ UNCHANGED <<data, files, cfg, path_to_checkpoint, check_dict, epoch, lr, net, mode,
                   optimizer, scaler, scheduler, batch_i, train_losses_this_epoch,
                   grad, found_inf, failure, ghost, after_crash, crash_at, counts>>

\* line 160
Unscale ==
    /\ pc = "unscale"
    /\ found_inf' = (grad = "inf")
    /\ pc' = "clip"
    /\ UNCHANGED <<data, files, cfg, path_to_checkpoint, check_dict, step_counter, epoch, lr,
                   net, mode, optimizer, scaler, scheduler, batch_i,
                   train_losses_this_epoch, grad, failure, ghost, after_crash,
                   crash_at, counts>>

\* line 161: error_if_nonfinite=False, nothing is raised
Clip ==
    /\ pc = "clip"
    /\ pc' = "optstep"
    /\ UNCHANGED <<data, files, proc, failure, ghost, after_crash, crash_at, counts>>

\* line 162: scaler.step skips optimizer.step() when unscale_ found an inf
OptStep ==
    /\ pc = "optstep"
    /\ IF found_inf
       THEN UNCHANGED <<net, optimizer>>
       ELSE /\ net' = net + 1
            /\ optimizer' = [optimizer EXCEPT !.steps = @ + 1]
    /\ pc' = "update"
    /\ UNCHANGED <<data, files, cfg, path_to_checkpoint, check_dict, step_counter, epoch, lr,
                   mode, scaler, scheduler, batch_i, train_losses_this_epoch, grad,
                   found_inf, failure, ghost, after_crash, crash_at, counts>>

\* line 163
Update ==
    /\ pc = "update"
    /\ scaler' = ScalerUpdate(scaler, found_inf)
    /\ found_inf' = FALSE
    /\ pc' = "sched"
    /\ UNCHANGED <<data, files, cfg, path_to_checkpoint, check_dict, step_counter, epoch, lr,
                   net, mode, optimizer, scheduler, batch_i, train_losses_this_epoch,
                   grad, failure, ghost, after_crash, crash_at, counts>>

\* line 164: scheduler.step() sets the optimizer's learning rate
Sched ==
    /\ pc = "sched"
    /\ scheduler' = Advance(scheduler)
    /\ optimizer' = [optimizer EXCEPT
                       !.lr = Apply(optimizer.initial_lr, scheduler'.current_step,
                                    cfg.warmup_steps)]
    /\ pc' = "fetch"
    /\ UNCHANGED <<data, files, cfg, path_to_checkpoint, check_dict, step_counter, epoch, lr,
                   net, mode, scaler, batch_i, train_losses_this_epoch, grad,
                   found_inf, failure, ghost, after_crash, crash_at, counts>>

\* an end-of-epoch block that saves and checks the budget after every epoch
IsSaveEpochAlways(e, epochs_per_save) == TRUE

\* an end-of-epoch block whose cadence starts with the first epoch
IsSaveEpochShifted(e, epochs_per_save) == (e - 1) % epochs_per_save = 0

\* line 167: epoch % epochs_per_save == 0
IsSaveEpoch(e, epochs_per_save) == e % epochs_per_save = 0

\* lines 165-167
Eval ==
    /\ pc = "eval"
    /\ mode' = "eval"
    /\ pc' = IF IsSaveEpoch(epoch, cfg.epochs_per_save) THEN "save" ELSE "log"
    /\ UNCHANGED <<data, files, cfg, path_to_checkpoint, check_dict, step_counter, epoch, lr,
                   net, optimizer, scaler, scheduler, batch_i,
                   train_losses_this_epoch, grad, found_inf, failure, ghost,
                   after_crash, crash_at, counts>>

\* a record that leaves the schedule out and stores a new one
SnapshotNewScheduler(m, o, sc, n, sd) ==
    [complete |-> TRUE, model |-> m, optimizer |-> o, scaler |-> sc,
     step_counter |-> n, scheduler |-> WarmupScheduler]

\* lines 168-174, the record torch.save is given
Snapshot(m, o, sc, n, sd) ==
    [complete |-> TRUE, model |-> m, optimizer |-> o, scaler |-> sc,
     step_counter |-> n, scheduler |-> sd]

\* the file name of line 174
CheckpointName(n) == n

\* lines 168-174: torch.save opens the file of that name for writing ...
SaveOpen ==
    /\ pc = "save"
    /\ disk' = [k \in DOMAIN disk \cup {CheckpointName(step_counter)} |->
                  IF k = CheckpointName(step_counter) THEN PartialFile ELSE disk[k]]
    /\ pc' = "saving"
    /\ UNCHANGED <<data, plots, proc, failure, ghost, after_crash, crash_at, counts>>

\* ... and writes the record to it
SaveWrite ==
    /\ pc = "saving"
    /\ disk' = [disk EXCEPT ![CheckpointName(step_counter)] =
                  Snapshot(net, optimizer, scaler, step_counter, scheduler)]
    /\ block_log' = Append(block_log, "save")
    /\ saves' = Append(saves, step_counter)
    /\ last_save' = [tag |-> CheckpointName(step_counter), model |-> net,
                     optimizer |-> optimizer, scaler |-> scaler,
                     scheduler |-> scheduler, step_counter |-> step_counter,
                     warmup_steps |-> cfg.warmup_steps]
    /\ pc' = "prune"
    /\ UNCHANGED <<data, plots, proc, failure, plotted, not_found, after_crash, crash_at,
                   counts>>

\* line 175
Prune ==
    /\ pc = "prune"
    /\ disk' = delete_old_checkpoints(disk, Keep)
    /\ block_log' = Append(block_log, "prune")
    /\ pc' = "plot"
    /\ UNCHANGED <<data, plots, proc, failure, plotted, saves, not_found, last_save,
                   after_crash, crash_at, counts>>

\* lines 176-177, plot_progress_spec: line 48 writes spec/<step>.png
plot_progress_spec(dir, step) == dir \cup {step}

Plot ==
    /\ pc = "plot"
    /\ plots' = plot_progress_spec(plots, step_counter)
    /\ plotted' = Append(plotted, step_counter)
    /\ block_log' = Append(block_log, "probe")
    /\ pc' = "check"
    /\ UNCHANGED <<data, disk, proc, failure, saves, not_found, last_save, after_crash,
                   crash_at, counts>>

\* a budget check that stops on reaching the budget
BudgetReached(n, steps) == n >= steps

\* a check that never finds the budget exceeded
BudgetNever(n, steps) == FALSE

\* line 178
BudgetExceeded(n, steps) == n > steps

\* lines 178-180
CheckDone ==
    /\ pc = "check"
    /\ pc' = IF BudgetExceeded(step_counter, cfg.steps) THEN "done" ELSE "log"
    /\ UNCHANGED <<data, files, proc, failure, ghost, after_crash, crash_at, counts>>

\* an epoch log that leaves out the mean of an empty list of losses
LogGuarded ==
    /\ pc = "log"
    /\ mode' = "train"
    /\ pc' = "epoch"
    /\ UNCHANGED <<data, files, cfg, path_to_checkpoint, check_dict, step_counter, epoch, lr,
                   net, optimizer, scaler, scheduler, batch_i,
                   train_losses_this_epoch, grad, found_inf, failure, ghost,
                   after_crash, crash_at, counts>>

\* lines 181-186: the mean of an empty list of losses raises
Log ==
    /\ pc = "log"
    /\ IF train_losses_this_epoch = 0
       THEN /\ pc' = "failed"
            /\ failure' = "ZeroDivisionError"
            /\ UNCHANGED mode
       ELSE /\ mode' = "train"
            /\ pc' = "epoch"
            /\ UNCHANGED failure
    /\ UNCHANGED <<data, files, cfg, path_to_checkpoint, check_dict, step_counter, epoch, lr,
                   net, optimizer, scaler, scheduler, batch_i,
                   train_losses_this_epoch, grad, found_inf, ghost, after_crash,
                   crash_at, counts>>

\* the process is killed; its memory is gone, the directory stays
Crash ==
    /\ Running
    /\ crashes < MaxCrashes
    /\ crashes' = crashes + 1
    /\ pc' = "idle"
    /\ cfg' = NoConfig /\ path_to_checkpoint' = None /\ check_dict' = NoDict
    /\ step_counter' = 0 /\ epoch' = 0 /\ lr' = 0 /\ net' = 0 /\ mode' = "train"
    /\ optimizer' = Adam(0) /\ scaler' = GradScaler /\ scheduler' = WarmupScheduler
    /\ batch_i' = 0 /\ train_losses_this_epoch' = 0 /\ grad' = "none"
    /\ found_inf' = FALSE
    /\ after_crash' = FALSE
    /\ crash_at' = [step_counter |-> step_counter,
                    interval |-> cfg.epochs_per_save
                                 * NumBatches(cfg.N, cfg.batch_size)]
    /\ block_log' = <<>> /\ plotted' = <<>> /\ saves' = <<>> /\ not_found' = FALSE
    /\ UNCHANGED <<data, files, failure, last_save, runs, overflows>>

Next ==
    \/ Start \/ Resume \/ Load \/ EpochBegin
    \/ Fetch \/ Forward \/ Backward \/ Count \/ Unscale \/ Clip \/ OptStep
    \/ Update \/ Sched
    \/ Eval \/ SaveOpen \/ SaveWrite \/ Prune \/ Plot \/ CheckDone \/ Log
    \/ Crash

Spec == Init /\ [][Next]_vars

\* fresh runs that are not killed
NextFresh ==
    \/ StartFresh \/ Resume \/ Load \/ EpochBegin
    \/ Fetch \/ Forward \/ Backward \/ Count \/ Unscale \/ Clip \/ OptStep
    \/ Update \/ Sched
    \/ Eval \/ SaveOpen \/ SaveWrite \/ Prune \/ Plot \/ CheckDone \/ Log

SpecFresh == Init /\ [][NextFresh]_vars

\* collate_and_pad called on a list of datapoints
InitCollate ==
    /\ disk = EmptyDir /\ plots = {}
    /\ pc = "collate" /\ failure = "none"
    /\ NoProcess
    /\ block_log = <<>> /\ plotted = <<>> /\ saves = <<>>
    /\ not_found = FALSE /\ after_crash = FALSE
    /\ last_save = NoSave /\ crash_at = NoCrash
    /\ runs = 0 /\ crashes = 0 /\ overflows = 0
    /\ batch \in Batches /\ collated = NotCalled /\ net_call = NoCall

Collate ==
    /\ pc = "collate"
    /\ collated' = collate_and_pad(batch)
    /\ pc' = "collated"
    /\ UNCHANGED <<batch, net_call, files, proc, failure, ghost, after_crash,
                   crash_at, counts>>

\* lines 146-154 on the batch the loader yielded, for either value of
\* use_speaker_embedding
Call ==
    /\ pc = "collated"
    /\ collated.ok
    /\ \E u \in BOOLEAN : net_call' = forward_call(collated.fields, u)
    /\ pc' = "called"
    /\ UNCHANGED <<batch, collated, files, proc, failure, ghost, after_crash,
                   crash_at, counts>>

NextCollate == Collate \/ Call

SpecCollate == InitCollate /\ [][NextCollate]_vars

\* runs of any kind that are not killed
NextRestore ==
    \/ StartRestore \/ Resume \/ Load \/ EpochBegin
    \/ Fetch \/ Forward \/ Backward \/ Count \/ Unscale \/ Clip \/ OptStep
    \/ Update \/ Sched
    \/ Eval \/ SaveOpen \/ SaveWrite \/ Prune \/ Plot \/ CheckDone \/ Log

SpecRestore == Init /\ [][NextRestore]_vars

\* runs over at least one batch per epoch in which nothing raises; the
\* process executes its next statement as long as it has one
StartLive ==
    \E b \in LiveConfigs, p \in Paths : StartRun(WithPath(b, p), RestoreRuns)

LoopStep ==
    \/ Resume \/ Load \/ EpochBegin
    \/ Fetch \/ Forward \/ Backward \/ Count \/ Unscale \/ Clip \/ OptStep
    \/ Update \/ Sched
    \/ Eval \/ SaveOpen \/ SaveWrite \/ Prune \/ Plot \/ CheckDone \/ Log

NextLive ==
    \/ StartLive \/ Resume \/ Load \/ EpochBegin
    \/ Fetch \/ Forward \/ Backward \/ Count \/ Unscale \/ Clip \/ OptStep
    \/ Update \/ Sched
    \/ Eval \/ SaveOpen \/ SaveWrite \/ Prune \/ Plot \/ CheckDone \/ Log

SpecLive == Init /\ [][NextLive]_vars /\ WF_vars(LoopStep)

TypeOK == pc \in {"idle", "resume", "load", "epoch", "fetch", "forward", "backward",
                  "count", "unscale", "clip", "optstep", "update", "sched", "eval",
                  "save", "saving", "prune", "plot", "check", "log", "done", "failed",
                  "collate", "collated", "called"}

\* ------------------------------------------------------------------ claims
Count_(seq, x) == Cardinality({i \in 1..Len(seq) : seq[i] = x})

FreshRun == pc # "idle" /\ ~cfg.resume /\ cfg.path_to_checkpoint = None

\* C1: in a fresh run over N examples with batch size B, after e complete
\* epochs step_counter = e * floor(N / B); at a save-cadence boundary the
\* checkpoint written carries the current step_counter in its name and in its
\* step_counter field, one checkpoint per boundary, and exactly one progress
\* artifact of that name is written.
C1_FreshRunCounts ==
    FreshRun =>
        /\ pc \in {"eval", "save", "saving", "prune", "plot", "check", "log"}
              => step_counter = epoch * (cfg.N \div cfg.batch_size)
        /\ pc \in {"epoch", "done"}
              => step_counter = epoch * (cfg.N \div cfg.batch_size)
        /\ pc = "prune"
              => /\ step_counter \in DOMAIN disk
                 /\ disk[step_counter].complete
                 /\ disk[step_counter].step_counter = step_counter
        /\ pc \in {"prune", "plot", "check", "done"}
              => /\ Len(saves) = epoch \div cfg.epochs_per_save
                 /\ saves[Len(saves)] = step_counter
        /\ pc \in {"check", "done"}
              => /\ step_counter \in plots
                 /\ Count_(plotted, step_counter) = 1
                 /\ Len(plotted) = epoch \div cfg.epochs_per_save

\* two epochs over 5 examples in batches of 2 (the fifth example is dropped
\* each time), saved once
C1_Witness ==
    /\ FreshRun /\ pc = "check" /\ epoch = 2 /\ step_counter = 4
    /\ cfg.N = 5 /\ cfg.batch_size = 2 /\ cfg.epochs_per_save = 2
    /\ plotted = <<4>> /\ 4 \in DOMAIN disk

\* C2: train_loop returns only from the end of an epoch that is a
\* save-cadence boundary with step_counter > steps, after the save, the prune
\* and the probe for that step_counter, in that order; no other state returns.
C2_DoneOnlyAtBoundary ==
    [][(pc' = "done" /\ pc # "done") =>
          /\ pc = "check"
          /\ batch_i = NumBatches(cfg.N, cfg.batch_size)
          /\ epoch % cfg.epochs_per_save = 0
          /\ step_counter > cfg.steps
          /\ step_counter' = step_counter
          /\ block_log = <<"save", "prune", "probe">>
          /\ saves[Len(saves)] = step_counter
          /\ plotted[Len(plotted)] = step_counter]_vars

\* a return at the second epoch of a run that saves every second epoch
C2_Witness ==
    /\ pc = "done" /\ cfg.epochs_per_save = 2 /\ epoch = 2
    /\ step_counter = 2 /\ cfg.steps = 1

\* C3: with resume requested and no checkpoint in save_directory the run
\* fails before the training loop: it never gets past the restore.
C3_ResumeNotFoundFails ==
    (cfg.resume /\ not_found) => (pc \in {"load", "failed"} /\ epoch = 0)

\* C4: every checkpoint file in save_directory is a complete snapshot.
C4_NoPartialFile == \A k \in DOMAIN disk : disk[k].complete

Restored == epoch = 0 /\ (pc = "epoch" \/ pc = "failed")

\* C5: a run restarted with resume after a kill restores exactly the state
\* of the last completed save, and at most one save interval of steps is lost.
C5_ResumeAfterCrash ==
    (after_crash /\ cfg.resume /\ ~cfg.fine_tune /\ last_save.tag # None /\ Restored)
        => /\ pc = "epoch"
           /\ step_counter = last_save.step_counter
           /\ net = last_save.model
           /\ optimizer = last_save.optimizer
           /\ scaler = last_save.scaler
           /\ scheduler = last_save.scheduler
           /\ crash_at.step_counter - step_counter <= crash_at.interval

Loaded == pc = "epoch" /\ epoch = 0 /\ path_to_checkpoint # None

\* C6: from a valid checkpoint, fine-tune mode restores the parameters only
\* (fresh optimizer, scaler and scheduler, step_counter 0, learning rate 0.01
\* times the configured one); otherwise all five fields are restored and the
\* learning rate is the configured one.
C6_RestoreModes ==
    Loaded =>
        LET ck == disk[path_to_checkpoint] IN
        IF cfg.fine_tune
        THEN /\ net = ck.model
             /\ optimizer.steps = 0
             /\ optimizer.initial_lr * 100 = cfg.lr
             /\ optimizer.lr = optimizer.initial_lr
             /\ scaler = GradScaler
             /\ scheduler.current_step = 0
             /\ step_counter = 0
             /\ lr * 100 = cfg.lr
        ELSE /\ net = ck.model
             /\ optimizer = ck.optimizer
             /\ scaler = ck.scaler
             /\ scheduler = ck.scheduler
             /\ step_counter = ck.step_counter
             /\ lr = cfg.lr

\* fine-tuning from a checkpoint that holds a used optimizer, a backed-off
\* scaler and an advanced schedule
C6_Witness ==
    /\ Loaded /\ cfg.fine_tune
    /\ disk[path_to_checkpoint].step_counter = 2
    /\ disk[path_to_checkpoint].optimizer.steps = 1
    /\ disk[path_to_checkpoint].scaler # GradScaler
    /\ disk[path_to_checkpoint].scheduler.current_step = 2

\* C7: a full load of the file the last save wrote gives back the
\* step_counter and the scheduler state of the moment of the save, and with
\* them the next learning rate of the run that saved.
C7_SaveLoadRoundTrip ==
    (Loaded /\ ~cfg.fine_tune /\ last_save.tag = path_to_checkpoint) =>
        /\ step_counter = last_save.step_counter
        /\ scheduler = last_save.scheduler
        /\ Apply(optimizer.initial_lr, Advance(scheduler).current_step,
                 last_save.warmup_steps)
             = Apply(last_save.optimizer.initial_lr,
                     Advance(last_save.scheduler).current_step,
                     last_save.warmup_steps)

\* a load of the checkpoint a run saved after its second step
C7_Witness ==
    /\ Loaded /\ ~cfg.fine_tune /\ last_save.tag = path_to_checkpoint
    /\ step_counter = 2 /\ scheduler.current_step = 2

\* C8: after the prune that follows a save, the checkpoint just written is
\* still in save_directory.
C8_PruneKeepsNew == pc = "plot" => step_counter \in DOMAIN disk

\* C9: a complete checkpoint file is never written again; it can only be
\* deleted by the prune.
C9_Immutable ==
    [][\A k \in DOMAIN disk :
          disk[k].complete =>
              \/ k \in DOMAIN disk' /\ disk'[k] = disk[k]
              \/ k \notin DOMAIN disk' /\ pc = "prune"]_vars

Mixed(b) == \E i, j \in 1..Len(b) : Len(b[i]) # Len(b[j])

\* C10: collate_and_pad raises on every batch whose datapoints disagree on
\* the number of fields; it returns no batch built from such datapoints.
C10_MixedBatchFails == (pc = "collated" /\ Mixed(batch)) => ~collated.ok

\* the fields of a batch, in the order of the comments of lines 55 and 65
FieldIndex(name) ==
    CASE name = "text" -> 1 [] name = "text_len" -> 2 [] name = "speech" -> 3
      [] name = "speech_len" -> 4 [] name = "durations" -> 5
      [] name = "energy" -> 6 [] name = "pitch" -> 7 [] name = "speaker_emb" -> 8

PaddedFields == {"text", "speech", "durations", "energy", "pitch"}
LengthFields == {"text_len", "speech_len"}

\* the longest value of a field among the datapoints of a batch
LongestIn(b, c) ==
    CHOOSE m \in 0..10 : /\ \E i \in 1..Len(b) : Len(b[i][c]) = m
                         /\ \A i \in 1..Len(b) : Len(b[i][c]) <= m

\* C11: for N datapoints of one variant, each of text, speech, durations,
\* energy and pitch comes back as N rows as long as the field's longest value
\* in the batch, row i holding datapoint i's values followed by zeros; the
\* two length fields as N entries, unmodified, in input order; the speaker
\* embedding, for 8-field datapoints only, as N unmodified rows.
C11_PaddedBatch ==
    (pc \in {"collated", "called"} /\ ~Mixed(batch)) =>
        LET n == Len(batch)
            f == collated.fields
        IN  /\ collated.ok
            /\ Len(f) = Len(batch[1])
            /\ \A name \in PaddedFields :
                 LET c == FieldIndex(name) IN
                 /\ Len(f[c]) = n
                 /\ \A i \in 1..n :
                      /\ Len(f[c][i]) = LongestIn(batch, c)
                      /\ \A j \in 1..Len(f[c][i]) :
                           f[c][i][j] = IF j <= Len(batch[i][c])
                                        THEN batch[i][c][j] ELSE 0
            /\ \A name \in LengthFields :
                 LET c == FieldIndex(name) IN
                 /\ Len(f[c]) = n
                 /\ \A i \in 1..n : f[c][i] = batch[i][c][1]
            /\ Len(batch[1]) = 8 =>
                 /\ Len(f[8]) = n
                 /\ \A i \in 1..n : f[8][i] = batch[i][8]

\* two 8-field datapoints whose texts and pitches differ in length
C11_Witness ==
    /\ pc = "collated" /\ Len(batch) = 2 /\ Len(batch[1]) = 8 /\ Len(batch[2]) = 8
    /\ Len(batch[1][1]) = 2 /\ Len(batch[2][1]) = 1
    /\ Len(batch[1][7]) = 1 /\ Len(batch[2][7]) = 2
    /\ collated.fields[1] = <<<<1, 2>>, <<1, 0>>>>
    /\ collated.fields[7] = <<<<7, 0>>, <<7, 8>>>>

\* field `name` of the collated batch
BatchField(name) == collated.fields[FieldIndex(name)]

\* row i of a padded field holds the values of datapoint i's field c
HoldsValuesOf(rows, c) ==
    \A i \in 1..Len(batch) :
        \A j \in 1..Len(batch[i][c]) : rows[i][j] = batch[i][c][j]

\* C16: the training call receives (text, text_len, speech, speech_len,
\* durations, pitch, energy[, speaker_emb]): its pitch argument is the
\* batch's pitch field, its energy argument the batch's energy field, and the
\* speaker embedding is passed exactly when use_speaker_embedding is set.
C16_CallArguments ==
    (pc = "called" /\ ~Mixed(batch)) =>
        IF net_call.ok
        THEN /\ SubSeq(net_call.args, 1, 7) =
                  <<BatchField("text"), BatchField("text_len"), BatchField("speech"),
                    BatchField("speech_len"), BatchField("durations"),
                    BatchField("pitch"), BatchField("energy")>>
             /\ HoldsValuesOf(net_call.args[6], FieldIndex("pitch"))
             /\ HoldsValuesOf(net_call.args[7], FieldIndex("energy"))
             /\ Len(net_call.args) = IF net_call.use_speaker_embedding THEN 8 ELSE 7
             /\ net_call.use_speaker_embedding =>
                  net_call.args[8] = BatchField("speaker_emb")
        ELSE net_call.use_speaker_embedding /\ Len(batch[1]) = 7

\* a call with the speaker embeddings of two 8-field datapoints whose energy
\* and pitch values differ in length
C16_Witness ==
    /\ pc = "called" /\ net_call.ok /\ net_call.use_speaker_embedding
    /\ Len(batch) = 2 /\ Len(batch[1]) = 8 /\ Len(batch[2]) = 8
    /\ net_call.args[6] = <<<<7, 8>>, <<7, 0>>>>
    /\ net_call.args[7] = <<<<5, 0>>, <<5, 6>>>>
    /\ net_call.args[8] = <<<<9>>, <<9>>>>

StepPcs == {"forward", "backward", "count", "unscale", "clip", "optstep", "update",
            "sched"}

\* C12: the model is back in training mode on every path out of the
\* end-of-epoch block, when the loop goes on to the next epoch and when
\* train_loop returns; every training step runs in training mode and every
\* probe in evaluation mode.
C12_TrainModeRestored ==
    /\ (pc = "epoch" /\ epoch > 0) => mode = "train"
    /\ pc = "done" => mode = "train"
    /\ pc \in StepPcs => mode = "train"
    /\ pc = "plot" => mode = "eval"

\* C13: within a training step step_counter is incremented last, after the
\* schedule has advanced: the increment ends the step, so that inside a step
\* step_counter is the number of completed steps.
C13_IncrementLast ==
    [][(pc \in StepPcs /\ step_counter' # step_counter) =>
          /\ step_counter' = step_counter + 1
          /\ pc' = "fetch"]_vars

\* the value step_counter has when the loop starts: the restored one, or 0
InitialStep ==
    IF check_dict.complete /\ ~cfg.fine_tune THEN check_dict.step_counter ELSE 0

BatchesPerEpoch == cfg.N \div cfg.batch_size

\* the first epoch at whose end step_counter > steps; 0 if there is none
FirstOver ==
    IF BatchesPerEpoch = 0
    THEN IF InitialStep > cfg.steps THEN 1 ELSE 0
    ELSE CHOOSE k \in 1..(cfg.steps + 1) :
            /\ InitialStep + k * BatchesPerEpoch > cfg.steps
            /\ \A j \in 1..(k - 1) : InitialStep + j * BatchesPerEpoch <= cfg.steps

\* the first epoch e' >= e with e' % epochs_per_save = 0
ReturnEpoch(e, epochs_per_save) ==
    ((e + epochs_per_save - 1) \div epochs_per_save) * epochs_per_save

\* C14 as stated: if e is the first epoch at whose end step_counter > steps,
\* train_loop returns at the first save-cadence epoch e' >= e, at most
\* epochs_per_save - 1 epochs later; it runs no epoch beyond e' and ends in
\* no other way.
C14_ReturnsAtBoundary ==
    (epoch >= 1 /\ FirstOver # 0) =>
        LET e1 == ReturnEpoch(FirstOver, cfg.epochs_per_save) IN
        /\ e1 - FirstOver <= cfg.epochs_per_save - 1
        /\ epoch <= e1
        /\ pc = "done" => epoch = e1
        /\ pc = "log" => epoch < e1
        /\ pc # "failed"

\* C14, amended: the run never goes beyond e' and returns nowhere but at the
\* end of e'; with at least one batch per epoch nothing ends it before e',
\* with none the mean loss of the first epoch ends it unless e' = 1; without
\* an epoch e it never returns.
C14_BoundedOvershoot ==
    epoch >= 1 =>
        IF FirstOver = 0
        THEN pc # "done"
        ELSE LET e1 == ReturnEpoch(FirstOver, cfg.epochs_per_save) IN
             /\ e1 - FirstOver <= cfg.epochs_per_save - 1
             /\ epoch <= e1
             /\ pc = "done" => epoch = e1
             /\ pc = "log" => epoch < e1
             /\ pc = "failed" =>
                   /\ BatchesPerEpoch = 0
                   /\ failure = "ZeroDivisionError"
                   /\ epoch = 1 /\ e1 > 1

\* restored at step_counter 1 with steps = 1: the budget is exceeded at the
\* end of epoch 1, the run returns at epoch 2
C14_Witness ==
    /\ pc = "done" /\ epoch = 2 /\ cfg.epochs_per_save = 2
    /\ InitialStep = 1 /\ FirstOver = 1 /\ step_counter = 3

\* C15: the epoch counter is not persisted and does not depend on
\* step_counter: in every run, restored ones included, it is 0 until the
\* first pass and then one more than the number of completed passes over the
\* data, and a checkpoint has been saved at each epoch e of this process with
\* e % epochs_per_save = 0 and at no other time.
C15_EpochSinceStart ==
    /\ pc \in {"resume", "load"} => epoch = 0
    /\ Loaded => epoch = 0
    /\ \A k \in DOMAIN disk : disk[k].complete =>
          DOMAIN disk[k] = {"complete", "model", "optimizer", "scaler",
                            "step_counter", "scheduler"}
    /\ pc \in {"fetch"} \cup StepPcs \cup {"eval", "save", "saving"} =>
          /\ epoch >= 1
          /\ batch_i \in 0..BatchesPerEpoch
          /\ step_counter - InitialStep \in
                ((epoch - 1) * BatchesPerEpoch)..(epoch * BatchesPerEpoch)
          /\ Len(saves) = (epoch - 1) \div cfg.epochs_per_save
    /\ pc \in {"eval", "save", "saving", "prune", "plot", "check", "log", "done"} =>
          step_counter - InitialStep = epoch * BatchesPerEpoch
    /\ pc \in {"prune", "plot", "check", "log", "done"} =>
          Len(saves) = epoch \div cfg.epochs_per_save
    /\ (pc = "epoch" /\ ~Loaded) => Len(saves) = epoch \div cfg.epochs_per_save
    /\ (pc = "failed" /\ epoch >= 1) => Len(saves) = epoch \div cfg.epochs_per_save

\* a run restored at step_counter 1 that is in its second epoch since process
\* start and saves there for the first time
C15_Witness ==
    /\ pc = "prune" /\ epoch = 2 /\ cfg.epochs_per_save = 2
    /\ InitialStep = 1 /\ saves = <<3>>

\* what the schedule and the optimizer hold when the loop starts
InitialSched ==
    IF check_dict.complete /\ ~cfg.fine_tune
    THEN check_dict.scheduler.current_step ELSE 0

InitialUpdates ==
    IF check_dict.complete /\ ~cfg.fine_tune THEN check_dict.optimizer.steps ELSE 0

\* the batches this run has processed when it is between two batches
Processed == (epoch - 1) * BatchesPerEpoch + batch_i

\* C17: non-finite gradients never abort the run; the optimizer update of
\* that batch is skipped, and step_counter and the warmup schedule still
\* advance by 1 for it: between two batches step_counter minus its initial
\* value is the number of batches processed in this run and the number of
\* scheduler advances, however many optimizer updates were skipped.
C17_OverflowTolerated ==
    /\ pc = "failed" => failure \in {"ZeroDivisionError", "CorruptCheckpointError"}
    /\ (pc = "update" /\ found_inf) =>
          /\ optimizer.steps - InitialUpdates < Processed
          /\ step_counter - InitialStep = Processed
    /\ pc = "fetch" =>
          /\ step_counter - InitialStep = Processed
          /\ scheduler.current_step - InitialSched = Processed
          /\ optimizer.steps - InitialUpdates <= Processed
          /\ optimizer.steps - InitialUpdates >= Processed - overflows
          /\ runs = 1 => optimizer.steps = Processed - overflows

\* two batches processed, the update of one of them skipped
C17_Witness ==
    /\ pc = "fetch" /\ runs = 1 /\ overflows = 1
    /\ step_counter = 2 /\ scheduler.current_step = 2 /\ optimizer.steps = 1

\* C19: with fewer than batch_size examples every epoch yields no batch, no
\* training step runs and step_counter keeps its initial value; the first
\* epoch returns if it is a save boundary and the initial step_counter
\* exceeds steps, and otherwise fails with a division by zero, after writing
\* a checkpoint tagged with the unchanged step_counter if it is a save
\* boundary; there is no second epoch.
C19_NoBatches ==
    (pc # "idle" /\ cfg.N < cfg.batch_size) =>
        /\ epoch <= 1
        /\ pc = "epoch" => epoch = 0
        /\ pc \notin StepPcs
        /\ batch_i = 0 /\ train_losses_this_epoch = 0
        /\ epoch = 1 => step_counter = InitialStep
        /\ pc = "done" =>
              /\ epoch = 1 /\ cfg.epochs_per_save = 1
              /\ InitialStep > cfg.steps
              /\ saves = <<InitialStep>>
        /\ (pc = "failed" /\ epoch = 1) =>
              /\ failure = "ZeroDivisionError"
              /\ ~(cfg.epochs_per_save = 1 /\ InitialStep > cfg.steps)
              /\ IF cfg.epochs_per_save = 1
                 THEN /\ saves = <<InitialStep>>
                      /\ InitialStep \in DOMAIN disk
                      /\ disk[InitialStep].complete
                      /\ disk[InitialStep].step_counter = InitialStep
                 ELSE saves = <<>>

\* one example, batches of two, saving every epoch: checkpoint 0 is written
\* and the epoch's mean loss fails
C19_Witness ==
    /\ pc = "failed" /\ failure = "ZeroDivisionError" /\ epoch = 1
    /\ cfg.N = 1 /\ cfg.batch_size = 2 /\ cfg.epochs_per_save = 1
    /\ saves = <<0>> /\ 0 \in DOMAIN disk /\ step_counter = 0

\* C18: with a finite step budget, any epochs_per_save >= 1 and at least one
\* batch per epoch, a run in which nothing raises eventually returns, fresh
\* or restored from a checkpoint.
C18_Terminates == (pc = "resume") ~> (pc = "done")

\* a run restored at step_counter 2 has returned
C18_Witness ==
    /\ pc = "done" /\ cfg.N >= cfg.batch_size
    /\ check_dict.complete /\ InitialStep = 2 /\ step_counter > 2

====
